---- MODULE Spec2Model ----
(***************************************************************************)
(* Model of the staging and commit engine of Django-Excel-Adapter          *)
(* (src/adapter.py, class AdapterStaging) against a small row store.       *)
(*                                                                         *)
(* The store is the external collaborator `model.objects`: per model type  *)
(* and primary key either a live row or no row.  The staging buffer is     *)
(* update_mapping / commit_lambdas / commit_lambdas_data exactly as the    *)
(* class keeps them; Python dicts are modelled as sequences where the code *)
(* depends on their insertion order.  commit() is one action; the order of *)
(* the calls it makes is recorded in the history variable log.             *)
(***************************************************************************)
EXTENDS Integers, Sequences, FiniteSets, TLC

(***************************************************************************)
(* Bounds of the model.                                                    *)
(***************************************************************************)
MaxEntries == 3     \* pending entries in the buffer, all model types together
MaxHooks == 2       \* add_commit_runnable calls
MaxCommits == 1     \* commit() calls on one buffer

(***************************************************************************)
(* Domains.                                                                *)
(***************************************************************************)
Models == {"Student", "Course"}
Pks == {1, 2}
Attrs == {"first_name", "gpa"}          \* attributes every row object has
Vals == {"a", "b"}
DeleteTag == "delete_tag"
Unset == "Unset"                        \* pk not in commit_lambdas_data
NoError == "none"

PRECOMMIT_DELETE_LAMBDA == "precommit_delete"
POSTCOMMIT_DELETE_LAMBDA == "postcommit_delete"
PRECOMMIT_UPDATE_LAMBDA == "precommit_update"
POSTCOMMIT_UPDATE_LAMBDA == "postcommit_update"
Phases == {PRECOMMIT_DELETE_LAMBDA, POSTCOMMIT_DELETE_LAMBDA,
           PRECOMMIT_UPDATE_LAMBDA, POSTCOMMIT_UPDATE_LAMBDA}

\* EXEMPTED_COLUMNS is an attribute of the class AdapterStaging: the empty list.
EXEMPTED_COLUMNS == {}

\* The names a bare identifier inside commit() resolves to: the module's
\* globals (its imports and classes).  A class attribute is not among them:
\* Python resolves a bare name in a method through the local, enclosing
\* function, global and builtin scopes, never through the class body.
ModuleGlobals == {"Model", "ObjectDoesNotExist", "Type", "Any", "List", "Dict",
                  "date", "Counter", "AdapterStaging", "Column", "BaseAdapter"}

(***************************************************************************)
(* A hook (runnable) is a caller-supplied callable; it is modelled by what *)
(* one call of it does: return None, return a payload (the empty dict {}   *)
(* or a non-empty one), raise ObjectDoesNotExist, or raise something else. *)
(***************************************************************************)
EmptyPayload == "{}"
Payloads == {EmptyPayload, "P1", "P2"}
ReturnsNone == "None"
RaisesMissing == "raise ObjectDoesNotExist"
RaisesOther == "raise Exception"
Runnables == Payloads \cup {ReturnsNone, RaisesMissing, RaisesOther}

\* Python truthiness of what a runnable returned: None and {} are falsy.
Truthy(result) == result \notin {ReturnsNone, EmptyPayload}

(***************************************************************************)
(* Keyword arguments: a sequence of [key, value, lit] with distinct keys,  *)
(* in the order given.  lit says whether the key object is the interned    *)
(* string the literal 'delete_tag' of commit() denotes: true for a key     *)
(* written as a keyword or as a literal, false for an equal string built   *)
(* at run time and passed through **mapping.                               *)
(***************************************************************************)
Kw(k, v) == [key |-> k, value |-> v, lit |-> TRUE]

KeysOf(cols) == {cols[i].key : i \in 1..Len(cols)}

\* The dict as a function from key to value.
AsMap(cols) ==
    [k \in KeysOf(cols) |->
        LET i == CHOOSE j \in 1..Len(cols) : cols[j].key = k IN cols[i].value]

\* Two mappings merged, the second one's value standing for a shared key.
Merged(f, g) ==
    [k \in DOMAIN f \cup DOMAIN g |-> IF k \in DOMAIN g THEN g[k] ELSE f[k]]

VARIABLES
    store,                \* model.objects: [Models -> [Pks -> row or NoRow]]
    update_mapping,       \* dict model -> list of (pk, kwargs), in insertion order
    commit_lambdas,       \* [Phases -> [Pks -> Seq(Runnables)]]
    commit_lambdas_data,  \* [Pks -> payload or Unset]
    added,                \* history: per (model, pk) what its add() calls passed
    pc,                   \* "staging", or how the last commit() ended
    rows_updated,         \* commit()'s counter when it ended
    err,                  \* the exception commit() raised, or NoError
    log,                  \* history: the calls the last commit() made, in order
    store0,               \* history: the store when the last commit() began
    nCommits,             \* commit() calls so far
    columns,              \* BaseAdapter.columns of the table definition in use
    data,                 \* the file handed to the importer: a sequence of rows
    outcome,              \* what the last table-definition or importer call returned
    staged                \* history: the staging calls made so far, in order

\* The variables of the table definition and of the importer.
tabular == <<columns, data, outcome, staged>>

vars == <<store, update_mapping, commit_lambdas, commit_lambdas_data, added,
          pc, rows_updated, err, log, store0, nCommits, tabular>>

(***************************************************************************)
(* Rows.  A row object has the attributes Attrs; protected says that the   *)
(* store refuses to delete it (row.delete() raises, as Django does for a   *)
(* row referenced through a protected foreign key).                        *)
(***************************************************************************)
Row(v, w, p) == [exists |-> TRUE, first_name |-> v, gpa |-> w, protected |-> p]
\* No row under a pk: objects.get(pk=pk) raises DoesNotExist.
NoRow == [exists |-> FALSE, first_name |-> "-", gpa |-> "-", protected |-> FALSE]
PlainRow == Row("a", "a", FALSE)
ProtectedRow == Row("a", "a", TRUE)

NoRunnables == [t \in Phases |-> [pk \in Pks |-> <<>>]]
NothingAdded == [x \in Models \X Pks |-> [first |-> <<>>, all |-> <<>>]]

\* Nothing returned yet.
NoResult == [op |-> "-", arg |-> <<>>, value |-> <<>>, raised |-> NoError]

\* AdapterStaging.__init__
InitBuffer ==
    /\ update_mapping = <<>>
    /\ commit_lambdas = NoRunnables
    /\ commit_lambdas_data = [pk \in Pks |-> Unset]
    /\ added = NothingAdded
    /\ pc = "staging"
    /\ rows_updated = 0
    /\ err = NoError
    /\ log = <<>>
    /\ nCommits = 0
    /\ outcome = NoResult
    /\ staged = <<>>

(***************************************************************************)
(* update_mapping as a sequence of [model, vals]: the dict's items() in    *)
(* insertion order; vals is the list of (pk, kwargs) tuples.               *)
(***************************************************************************)
ModelIndex(mapping, model) ==
    IF \E i \in 1..Len(mapping) : mapping[i].model = model
    THEN CHOOSE i \in 1..Len(mapping) : mapping[i].model = model
    ELSE 0

\* AdapterStaging._key_index over the list vals; Python's -1 is 0 here
\* (sequences are 1-based): the first index whose pk equals pk.
KeyIndex(vals, pk) ==
    IF \E i \in 1..Len(vals) : vals[i].pk = pk
    THEN CHOOSE i \in 1..Len(vals) :
            /\ vals[i].pk = pk
            /\ \A j \in 1..(i - 1) : vals[j].pk # pk
    ELSE 0

NumEntries ==
    LET RECURSIVE Sum(_)
        Sum(i) == IF i = 0 THEN 0 ELSE Len(update_mapping[i].vals) + Sum(i - 1)
    IN Sum(Len(update_mapping))

\* Mutant of DictUpdate: a key already present keeps its first value.
RECURSIVE DictUpdateKeepsFirst(_, _)
DictUpdateKeepsFirst(cols, kwargs) ==
    IF kwargs = <<>> THEN cols
    ELSE DictUpdateKeepsFirst(
            IF Head(kwargs).key \in KeysOf(cols) THEN cols
            ELSE Append(cols, Head(kwargs)),
            Tail(kwargs))

\* dict.update(**kwargs): a key already present keeps its place (and its key
\* object) and takes the new value; a new key is appended.
RECURSIVE DictUpdate(_, _)
DictUpdate(cols, kwargs) ==
    IF kwargs = <<>> THEN cols
    ELSE LET kw == Head(kwargs)
             upd == IF kw.key \in KeysOf(cols)
                    THEN [i \in 1..Len(cols) |->
                            IF cols[i].key = kw.key
                            THEN [cols[i] EXCEPT !.value = kw.value]
                            ELSE cols[i]]
                    ELSE Append(cols, kw)
         IN DictUpdate(upd, Tail(kwargs))

\* Mutant of AddTo: the entry merged into moves to the end of its list.
AddToMovesEntryLast(mapping, model, pk, kwargs) ==
    LET mi == ModelIndex(mapping, model)
    IN IF mi = 0
       THEN Append(mapping, [model |-> model,
                             vals |-> <<[pk |-> pk, cols |-> kwargs]>>])
       ELSE LET vals == mapping[mi].vals
                key_index == KeyIndex(vals, pk)
            IN IF key_index > 0
               THEN [mapping EXCEPT ![mi].vals =
                        Append(SubSeq(vals, 1, key_index - 1)
                                  \o SubSeq(vals, key_index + 1, Len(vals)),
                               [pk |-> pk,
                                cols |-> DictUpdate(vals[key_index].cols, kwargs)])]
               ELSE [mapping EXCEPT ![mi].vals =
                                        Append(@, [pk |-> pk, cols |-> kwargs])]

\* update_mapping after add(model, pk, **kwargs).
AddTo(mapping, model, pk, kwargs) ==
    LET mi == ModelIndex(mapping, model)
    IN IF mi = 0
       THEN Append(mapping, [model |-> model,
                             vals |-> <<[pk |-> pk, cols |-> kwargs]>>])
       ELSE LET key_index == KeyIndex(mapping[mi].vals, pk)
            IN IF key_index > 0
               THEN [mapping EXCEPT ![mi].vals[key_index].cols =
                                        DictUpdate(@, kwargs)]
               ELSE [mapping EXCEPT ![mi].vals =
                                        Append(@, [pk |-> pk, cols |-> kwargs])]

\* update_mapping after delete(model, pk): always a new entry.
DeleteTo(mapping, model, pk) ==
    LET entry == [pk |-> pk, cols |-> <<Kw(DeleteTag, "X")>>]
        mi == ModelIndex(mapping, model)
    IN IF mi = 0
       THEN Append(mapping, [model |-> model, vals |-> <<entry>>])
       ELSE [mapping EXCEPT ![mi].vals = Append(@, entry)]

Staging == pc = "staging"

\* Whether add(model, pk, ...) finds an entry to merge into.
HasEntry(model, pk) ==
    /\ ModelIndex(update_mapping, model) > 0
    /\ KeyIndex(update_mapping[ModelIndex(update_mapping, model)].vals, pk) > 0

\* The variables a staging call leaves alone.
CommitUnchanged == UNCHANGED <<store, pc, rows_updated, err, log, store0, nCommits>>

add(model, pk, kwargs) ==
    /\ Staging
    /\ NumEntries < MaxEntries \/ HasEntry(model, pk)
    /\ update_mapping' = AddTo(update_mapping, model, pk, kwargs)
    /\ UNCHANGED <<commit_lambdas, commit_lambdas_data>>
    /\ CommitUnchanged

delete(model, pk) ==
    /\ Staging
    /\ NumEntries < MaxEntries
    /\ update_mapping' = DeleteTo(update_mapping, model, pk)
    /\ UNCHANGED <<commit_lambdas, commit_lambdas_data>>
    /\ CommitUnchanged

NumHooks ==
    LET RECURSIVE Sum(_)
        Sum(S) == IF S = {} THEN 0
                  ELSE LET x == CHOOSE y \in S : TRUE
                       IN Len(commit_lambdas[x[1]][x[2]]) + Sum(S \ {x})
    IN Sum(Phases \X Pks)

\* add_commit_runnable can be called whenever the buffer exists, after a
\* commit() as well as before.
add_commit_runnable(runnable_type, pk, runnable) ==
    /\ NumHooks < MaxHooks
    /\ commit_lambdas' =
          [commit_lambdas EXCEPT ![runnable_type][pk] = Append(@, runnable)]
    /\ commit_lambdas_data' =
          IF commit_lambdas[runnable_type][pk] = <<>>
          THEN [commit_lambdas_data EXCEPT ![pk] = EmptyPayload]
          ELSE commit_lambdas_data
    /\ UNCHANGED update_mapping
    /\ CommitUnchanged

has_commit_runnable(runnable_type, pk) ==
    commit_lambdas[runnable_type][pk] # <<>>

(***************************************************************************)
(* commit().  The context c carries the pending entries (mapping) and what *)
(* commit() has changed so far: the                                        *)
(* store, commit_lambdas_data, its counter rows, the exception in flight   *)
(* (err), the row object of the entry being processed (obj) and that       *)
(* entry's columns_updated.  Every call commit() makes is appended to log. *)
(***************************************************************************)
Event(op, mi, j, model, pk) ==
    [op |-> op, mi |-> mi, j |-> j, model |-> model, pk |-> pk,
     type |-> "-", i |-> 0, data |-> "-", ret |-> "-", key |-> "-", value |-> "-",
     row |-> NoRow]

Logged(c, e) == [c EXCEPT !.log = Append(@, e)]

\* Line 155: self.commit_lambdas_data[pk] = result if result else self.commit_lambdas_data[pk]
StoredAfter(result, stored) == IF Truthy(result) THEN result ELSE stored

\* _run_lambdas from the i-th runnable of (runnable_type, pk) on.
RECURSIVE RunLambdasFrom(_, _, _, _, _)
RunLambdasFrom(c, runnable_type, pk, at, i) ==
    LET runnables == commit_lambdas[runnable_type][pk]
    IN IF i > Len(runnables) THEN c
       ELSE LET runnable == runnables[i]
                called == Logged(c, [Event("hook", at[1], at[2], at[3], pk) EXCEPT
                                        !.type = runnable_type, !.i = i,
                                        !.data = c.data[pk], !.ret = runnable])
            IN IF runnable = RaisesMissing
               THEN [called EXCEPT !.err = "ObjectDoesNotExist"]
               ELSE IF runnable = RaisesOther
               THEN [called EXCEPT !.err = "Exception"]
               ELSE RunLambdasFrom(
                        [called EXCEPT !.data[pk] = StoredAfter(runnable, @)],
                        runnable_type, pk, at, i + 1)

RunLambdas(c, runnable_type, pk, at) == RunLambdasFrom(c, runnable_type, pk, at, 1)

\* Line 51: key is 'delete_tag' and column_updates[key] == 'X'
IsDeletion(kw) == kw.key = DeleteTag /\ kw.lit /\ kw.value = "X"

\* Mutant of DeleteBranch: row.delete() leaves the row in the store.
DeleteBranchKeepsRow(c, model, pk, at) ==
    LET pre == RunLambdas(c, PRECOMMIT_DELETE_LAMBDA, pk, at)
        tried == Logged(pre, [Event("delete", at[1], at[2], model, pk) EXCEPT
                                !.row = c.obj])
        deleted == IF c.obj.protected
                   THEN [tried EXCEPT !.err = "ProtectedError"]
                   ELSE tried
        post == RunLambdas(deleted, POSTCOMMIT_DELETE_LAMBDA, pk, at)
    IN IF pre.err # NoError THEN pre
       ELSE IF deleted.err # NoError THEN deleted
       ELSE IF post.err # NoError THEN post
       ELSE Logged([post EXCEPT !.rows = @ + 1],
                   Event("count", at[1], at[2], model, pk))

\* Lines 52-55: the deletion branch for one key of an entry.
DeleteBranch(c, model, pk, at) ==
    LET pre == RunLambdas(c, PRECOMMIT_DELETE_LAMBDA, pk, at)
        tried == Logged(pre, [Event("delete", at[1], at[2], model, pk) EXCEPT
                                !.row = c.obj])
        deleted == IF c.obj.protected
                   THEN [tried EXCEPT !.err = "ProtectedError"]
                   ELSE [tried EXCEPT !.store[model][pk] = NoRow]
        post == RunLambdas(deleted, POSTCOMMIT_DELETE_LAMBDA, pk, at)
    IN IF pre.err # NoError THEN pre
       ELSE IF deleted.err # NoError THEN deleted
       ELSE IF post.err # NoError THEN post
       ELSE Logged([post EXCEPT !.rows = @ + 1],
                   Event("count", at[1], at[2], model, pk))

\* Mutant of CompareBranch: columns_updated is incremented for every key
\* compared, changed or not.
CompareBranchCountsEvery(c, model, pk, kw, at) ==
    IF kw.key \notin Attrs
    THEN [c EXCEPT !.err = "AttributeError"]
    ELSE IF c.obj[kw.key] = kw.value
    THEN [c EXCEPT !.columns_updated = @ + 1]
    ELSE [c EXCEPT !.err = "NameError"]

\* Lines 57-61: the comparison branch for one key of an entry.
CompareBranch(c, model, pk, kw, at) ==
    IF kw.key \notin Attrs
    THEN [c EXCEPT !.err = "AttributeError"]                 \* getattr(row, key)
    ELSE IF c.obj[kw.key] = kw.value
    THEN c
    ELSE IF "EXEMPTED_COLUMNS" \notin ModuleGlobals
    THEN [c EXCEPT !.err = "NameError"]                      \* line 59
    ELSE LET set == IF kw.key \notin EXEMPTED_COLUMNS
                    THEN Logged([c EXCEPT !.obj[kw.key] = kw.value],
                                [Event("setattr", at[1], at[2], model, pk) EXCEPT
                                    !.key = kw.key, !.value = kw.value])
                    ELSE c
         IN [set EXCEPT !.columns_updated = @ + 1]

\* Lines 49-61: the loop over column_updates.items() from the k-th item on.
RECURSIVE ProcessKeys(_, _, _, _, _, _)
ProcessKeys(c, model, pk, cols, k, at) ==
    IF k > Len(cols) \/ c.err # NoError THEN c
    ELSE LET next == IF IsDeletion(cols[k])
                     THEN DeleteBranch(c, model, pk, at)
                     ELSE CompareBranch(c, model, pk, cols[k], at)
         IN ProcessKeys(next, model, pk, cols, k + 1, at)

\* Lines 63-67: the update of a row with changed columns.
UpdateBranch(c, model, pk, at) ==
    LET pre == RunLambdas(c, PRECOMMIT_UPDATE_LAMBDA, pk, at)
        saved == Logged([pre EXCEPT !.store[model][pk] = pre.obj],
                        Event("save", at[1], at[2], model, pk))
        post == RunLambdas(saved, POSTCOMMIT_UPDATE_LAMBDA, pk, at)
    IN IF pre.err # NoError THEN pre
       ELSE IF post.err # NoError THEN post
       ELSE Logged([post EXCEPT !.rows = @ + 1],
                   Event("count", at[1], at[2], model, pk))

\* Mutant of Caught: except Exception.
CaughtEverything(e) == e # NoError

\* Mutant of Caught: the except clause is missing.
CaughtNothing(e) == FALSE

\* Line 68: except ObjectDoesNotExist.
Caught(e) == e = "ObjectDoesNotExist"

\* Lines 46-69: one (pk, column_updates) of update_mapping[mi].
ProcessEntry(c, mi, j) ==
    LET model == c.mapping[mi].model
        entry == c.mapping[mi].vals[j]
        pk == entry.pk
        at == <<mi, j, model>>
        got == Event("get", mi, j, model, pk)
        tried == IF pk \notin Pks \/ c.store[model][pk] = NoRow
                 THEN [Logged(c, [got EXCEPT !.ret = "DoesNotExist"])
                          EXCEPT !.err = "ObjectDoesNotExist"]
                 ELSE LET row == [Logged(c, [got EXCEPT !.ret = "row",
                                                        !.row = c.store[model][pk]])
                                     EXCEPT
                                     !.obj = c.store[model][pk],
                                     !.columns_updated = 0]
                          looped == ProcessKeys(row, model, pk, entry.cols, 1, at)
                      IN IF looped.err = NoError /\ looped.columns_updated > 0
                         THEN UpdateBranch(looped, model, pk, at)
                         ELSE looped
    IN IF Caught(tried.err) THEN [tried EXCEPT !.err = NoError] ELSE tried

\* Lines 44-45: the two loops, from entry j of model mi on.
RECURSIVE CommitFrom(_, _, _)
CommitFrom(c, mi, j) ==
    IF c.err # NoError \/ mi > Len(c.mapping) THEN c
    ELSE IF j > Len(c.mapping[mi].vals) THEN CommitFrom(c, mi + 1, 1)
    ELSE CommitFrom(ProcessEntry(c, mi, j), mi, j + 1)

\* commit() over the pending entries mapping: the context it ends with.
CommitOf(mapping) ==
    CommitFrom([mapping |-> mapping, store |-> store, data |-> commit_lambdas_data,
                log |-> <<>>, rows |-> 0, err |-> NoError,
                obj |-> NoRow, columns_updated |-> 0], 1, 1)

\* One call of commit(), the first on this buffer or a later one.
CommitCall ==
    /\ LET c == CommitOf(update_mapping)
       IN /\ store' = c.store
          /\ commit_lambdas_data' = c.data
          /\ log' = c.log
          /\ rows_updated' = c.rows
          /\ err' = c.err
          /\ pc' = IF c.err = NoError THEN "returned" ELSE "raised"
    /\ store0' = store
    /\ nCommits' = nCommits + 1
    /\ UNCHANGED <<update_mapping, commit_lambdas>>

commit ==
    /\ nCommits < MaxCommits
    /\ CommitCall

(***************************************************************************)
(* Specifications.  Spec: staging and commit without hooks.  SpecUpdate,   *)
(* SpecHooks, SpecFail: staging and commit with update hooks, with delete  *)
(* hooks of every kind, with failing delete hooks.  SpecAdd: the buffer    *)
(* under add() calls alone, with the history variable added kept: per      *)
(* (model, pk) the keyword arguments of its first add() and the mapping    *)
(* all its add() calls amount to, later values standing.                   *)
(***************************************************************************)
Stores == {[m \in Models |-> [pk \in Pks |->
                IF m = "Course" /\ pk = 2 THEN NoRow ELSE PlainRow]]}

Init ==
    /\ InitBuffer
    /\ store \in Stores
    /\ store0 = store
    /\ columns = <<>>
    /\ data = <<>>

\* A 'delete_tag' key built at run time: equal to the literal, not the same object.
KwDynamicTag == <<[key |-> DeleteTag, value |-> "X", lit |-> FALSE]>>

KwSpec == {<<Kw("first_name", "a")>>, <<Kw("first_name", "b")>>,
           <<Kw(DeleteTag, "X")>>, KwDynamicTag}

Add == \E model \in Models, pk \in Pks, kwargs \in KwSpec :
          add(model, pk, kwargs) /\ UNCHANGED <<added, tabular>>
Delete == \E model \in Models, pk \in Pks : delete(model, pk) /\ UNCHANGED <<added, tabular>>
Commit == commit /\ UNCHANGED <<added, tabular>>

Next == Add \/ Delete \/ Commit
Spec == Init /\ [][Next]_vars

\* SpecUpdate: add(), delete() of Student rows, update hooks, commit().
AddUpdateRunnable ==
    \E runnable_type \in {PRECOMMIT_UPDATE_LAMBDA, POSTCOMMIT_UPDATE_LAMBDA},
       pk \in Pks :
        Staging /\ add_commit_runnable(runnable_type, pk, ReturnsNone) /\ UNCHANGED <<added, tabular>>
AddAttr == \E model \in Models, pk \in Pks, v \in Vals :
              add(model, pk, <<Kw("first_name", v)>>) /\ UNCHANGED <<added, tabular>>
DeleteStudent == \E pk \in Pks : delete("Student", pk) /\ UNCHANGED <<added, tabular>>

NextUpdate == AddAttr \/ DeleteStudent \/ AddUpdateRunnable \/ Commit
SpecUpdate == Init /\ [][NextUpdate]_vars

KwAdd == {<<Kw("first_name", "a")>>, <<Kw("gpa", "a")>>,
          <<Kw("gpa", "b"), Kw("first_name", "b")>>}

AddTracked ==
    \E model \in Models, pk \in Pks, kwargs \in KwAdd :
        /\ add(model, pk, kwargs)
        /\ added' = [added EXCEPT ![<<model, pk>>] =
                        [first |-> IF @.all = <<>> THEN AsMap(kwargs) ELSE @.first,
                         all |-> Merged(@.all, AsMap(kwargs))]]
        /\ UNCHANGED tabular

NextAdd == AddTracked
SpecAdd == Init /\ [][NextAdd]_vars

(***************************************************************************)
(* C2: after any sequence of add() calls, every (model, pk) that add() was *)
(* called for has exactly one pending entry, and that entry's column map   *)
(* is the union of the columns of all its add() calls, a key given more    *)
(* than once holding the value of the latest call.                         *)
(***************************************************************************)
EntriesOf(model, pk) ==
    LET mi == ModelIndex(update_mapping, model)
    IN IF mi = 0 THEN {}
       ELSE {i \in 1..Len(update_mapping[mi].vals) :
                update_mapping[mi].vals[i].pk = pk}

C2_AddMerges ==
    \A model \in Models, pk \in Pks :
        LET mi == ModelIndex(update_mapping, model)
            is == EntriesOf(model, pk)
        IN IF added[<<model, pk>>].all = <<>>
           THEN is = {}
           ELSE /\ Cardinality(is) = 1
                /\ \A i \in is :
                      AsMap(update_mapping[mi].vals[i].cols) = added[<<model, pk>>].all

\* Some row's later add() both overwrote a column of its first add() and
\* brought a column the first add() did not have.
C2_Witness ==
    \E model \in Models, pk \in Pks :
        LET a == added[<<model, pk>>]
        IN /\ \E k \in DOMAIN a.first : a.all[k] # a.first[k]
           /\ DOMAIN a.all # DOMAIN a.first
           /\ Cardinality(EntriesOf(model, pk)) = 1

(***************************************************************************)
(* C3: at most one pending entry per (model, pk), whatever add() and       *)
(* delete() calls were made.                                               *)
(***************************************************************************)
C3_OneEntryPerRow ==
    \A model \in Models, pk \in Pks : Cardinality(EntriesOf(model, pk)) <= 1

\* SpecHooks: delete hooks of every kind over a store with a protected row;
\* delete() of any row, add() of a changed column or of delete_tag to row 1.
StoresHooks == {[m \in Models |-> [pk \in Pks |->
                    IF m = "Course" /\ pk = 2 THEN NoRow
                    ELSE IF m = "Student" /\ pk = 2 THEN ProtectedRow
                    ELSE PlainRow]]}

InitHooks ==
    /\ InitBuffer
    /\ store \in StoresHooks
    /\ store0 = store
    /\ columns = <<>>
    /\ data = <<>>

AddDeleteRunnable ==
    \E runnable_type \in {PRECOMMIT_DELETE_LAMBDA, POSTCOMMIT_DELETE_LAMBDA},
       pk \in Pks, runnable \in Runnables :
        Staging /\ add_commit_runnable(runnable_type, pk, runnable) /\ UNCHANGED <<added, tabular>>
AddChanged ==
    \E x \in {<<"Student", <<Kw("first_name", "b")>>>>,
               <<"Student", <<Kw(DeleteTag, "X")>>>>,
               <<"Course", <<Kw("first_name", "b")>>>>} :
        add(x[1], 1, x[2]) /\ UNCHANGED <<added, tabular>>

NextHooks == AddChanged \/ Delete \/ AddDeleteRunnable \/ Commit
SpecHooks == InitHooks /\ [][NextHooks]_vars

\* SpecFail: delete() of any row and delete hooks that return, raise
\* ObjectDoesNotExist or raise something else, over the same store.
AddFailingRunnable ==
    \E runnable_type \in {PRECOMMIT_DELETE_LAMBDA, POSTCOMMIT_DELETE_LAMBDA},
       pk \in Pks, runnable \in {ReturnsNone, RaisesMissing, RaisesOther} :
        Staging /\ add_commit_runnable(runnable_type, pk, runnable) /\ UNCHANGED <<added, tabular>>

NextFail == Delete \/ AddFailingRunnable \/ Commit
SpecFail == InitHooks /\ [][NextFail]_vars

(***************************************************************************)
(* What the last commit() did, read off log.  A position <<mi, j>> is the  *)
(* j-th entry of the mi-th model of update_mapping.                        *)
(***************************************************************************)
Committed == pc \in {"returned", "raised"}

Positions ==
    UNION {{<<mi, j>> : j \in 1..Len(update_mapping[mi].vals)} :
              mi \in 1..Len(update_mapping)}

EntryAt(p) == update_mapping[p[1]].vals[p[2]]
ModelAt(p) == update_mapping[p[1]].model

EventsAt(p) == {i \in 1..Len(log) : log[i].mi = p[1] /\ log[i].j = p[2]}
OpsAt(p, op) == {i \in EventsAt(p) : log[i].op = op}
HooksAt(p, type) == {i \in OpsAt(p, "hook") : log[i].type = type}

Reached(p) == OpsAt(p, "get") # {}
Found(p) == \E i \in OpsAt(p, "get") : log[i].ret = "row"
Missing(p) == \E i \in OpsAt(p, "get") : log[i].ret = "DoesNotExist"
\* The row object commit() fetched for the entry at p.
Fetched(p) == log[CHOOSE i \in OpsAt(p, "get") : TRUE].row

\* commit() raised while it processed the entry at p.
FailedAt(p) == pc = "raised" /\ log # <<>> /\ log[Len(log)].mi = p[1]
                             /\ log[Len(log)].j = p[2]

\* The entry commit() processes after the one at p, if any.
HasNext(p) == p[2] < Len(update_mapping[p[1]].vals) \/ p[1] < Len(update_mapping)
NextPos(p) == IF p[2] < Len(update_mapping[p[1]].vals)
              THEN <<p[1], p[2] + 1>> ELSE <<p[1] + 1, 1>>

HasTag(cols) == DeleteTag \in KeysOf(cols)
Unchanged(row, cols) ==
    \A k \in 1..Len(cols) : cols[k].key \in Attrs /\ row[cols[k].key] = cols[k].value

(***************************************************************************)
(* C1: a buffer whose only entry was staged by add() for a row that exists *)
(* and differs from it in some column: commit() returns 1, saves the row   *)
(* once, and the store row then holds every staged value.                  *)
(***************************************************************************)
C1_SingleAddCommits ==
    (/\ Committed
     /\ Positions = {<<1, 1>>}
     /\ ~HasTag(EntryAt(<<1, 1>>).cols)
     /\ store0[ModelAt(<<1, 1>>)][EntryAt(<<1, 1>>).pk].exists
     /\ ~Unchanged(store0[ModelAt(<<1, 1>>)][EntryAt(<<1, 1>>).pk],
                   EntryAt(<<1, 1>>).cols))
    => /\ pc = "returned"
       /\ rows_updated = 1
       /\ Cardinality(OpsAt(<<1, 1>>, "save")) = 1
       /\ \A k \in 1..Len(EntryAt(<<1, 1>>).cols) :
             LET kw == EntryAt(<<1, 1>>).cols[k]
             IN store[ModelAt(<<1, 1>>)][EntryAt(<<1, 1>>).pk][kw.key] = kw.value

(***************************************************************************)
(* C5: an entry that carries delete_tag = "X" (staged by delete() or as a   *)
(* keyword of add()) together with other columns, for a row that exists:   *)
(* commit() writes none of the other columns, does not save the row, runs  *)
(* no update hook for it, counts it once and goes on (the other columns    *)
(* are skipped, they do not end commit()).                                 *)
(***************************************************************************)
IsMixedDeletion(cols) ==
    /\ \E k \in 1..Len(cols) : IsDeletion(cols[k])
    /\ Len(cols) > 1

C5_DeletionSkipsColumns ==
    Committed =>
        \A p \in Positions :
            (Found(p) /\ IsMixedDeletion(EntryAt(p).cols))
            => /\ OpsAt(p, "setattr") = {}
               /\ OpsAt(p, "save") = {}
               /\ HooksAt(p, PRECOMMIT_UPDATE_LAMBDA) = {}
               /\ HooksAt(p, POSTCOMMIT_UPDATE_LAMBDA) = {}
               /\ Cardinality(OpsAt(p, "count")) = 1
               /\ ~FailedAt(p)

(***************************************************************************)
(* C7: an entry all of whose staged values equal the values of the row     *)
(* commit() fetched for it: the row is not saved, no pre-update or         *)
(* post-update hook runs for it, and it is not counted.                    *)
(***************************************************************************)
C7_UnchangedRowUntouched ==
    Committed =>
        \A p \in Positions :
            (Found(p) /\ Unchanged(Fetched(p), EntryAt(p).cols))
            => /\ OpsAt(p, "save") = {}
               /\ OpsAt(p, "setattr") = {}
               /\ HooksAt(p, PRECOMMIT_UPDATE_LAMBDA) = {}
               /\ HooksAt(p, POSTCOMMIT_UPDATE_LAMBDA) = {}
               /\ OpsAt(p, "count") = {}

\* commit() returned over an unchanged entry whose row id has a pre-update
\* and a post-update hook registered.
C7_Witness ==
    /\ pc = "returned"
    /\ \E p \in Positions :
          /\ Found(p) /\ Unchanged(Fetched(p), EntryAt(p).cols)
          /\ commit_lambdas[PRECOMMIT_UPDATE_LAMBDA][EntryAt(p).pk] # <<>>
          /\ commit_lambdas[POSTCOMMIT_UPDATE_LAMBDA][EntryAt(p).pk] # <<>>

(***************************************************************************)
(* C8: an entry whose row id has no live row: commit() does nothing for it *)
(* but the lookup (no hook, no write, no count), raises nothing, and goes  *)
(* on to the next entry, of the same or of the next model type.            *)
(***************************************************************************)
C8_MissingRowSkipped ==
    Committed =>
        \A p \in Positions :
            Missing(p)
            => /\ Cardinality(EventsAt(p)) = 1
               /\ ~FailedAt(p)
               /\ HasNext(p) => Reached(NextPos(p))

\* A missing row whose id has a hook registered was followed by a found row
\* of the same model type and by a found row of the next model type.
C8_Witness ==
    /\ Committed
    /\ \E p \in Positions :
          /\ Missing(p)
          /\ commit_lambdas[PRECOMMIT_UPDATE_LAMBDA][EntryAt(p).pk] # <<>>
          /\ \E q \in Positions : q[1] = p[1] /\ q[2] > p[2] /\ Found(q)
          /\ \E q \in Positions : q[1] > p[1] /\ Found(q)

(***************************************************************************)
(* C4: an entry that carries delete_tag = "X", for a row that exists and   *)
(* can be deleted, none of whose delete hooks raises: commit() runs the    *)
(* pre-delete hooks of the row id once each in registration order, then    *)
(* deletes the row, then runs the post-delete hooks once each in           *)
(* registration order, counts the row once, and does not raise over it.    *)
(***************************************************************************)
CarriesTag(cols) == \E k \in 1..Len(cols) : IsDeletion(cols[k])

NoneRaises(type, pk) ==
    \A i \in 1..Len(commit_lambdas[type][pk]) :
        commit_lambdas[type][pk][i] \notin {RaisesMissing, RaisesOther}

\* The calls commit() made for the entry at p that belong to a deletion.
DeletionCalls(p) ==
    LET IsDeletionCall(e) ==
            /\ e.mi = p[1] /\ e.j = p[2]
            /\ \/ e.op \in {"delete", "count"}
               \/ e.op = "hook" /\ e.type \in {PRECOMMIT_DELETE_LAMBDA,
                                               POSTCOMMIT_DELETE_LAMBDA}
    IN SelectSeq(log, IsDeletionCall)

C4_DeletionRunsHooksInOrder ==
    Committed =>
        \A p \in Positions :
            LET pk == EntryAt(p).pk
                n == Len(commit_lambdas[PRECOMMIT_DELETE_LAMBDA][pk])
                m == Len(commit_lambdas[POSTCOMMIT_DELETE_LAMBDA][pk])
                calls == DeletionCalls(p)
            IN (/\ Found(p) /\ CarriesTag(EntryAt(p).cols)
                /\ ~Fetched(p).protected
                /\ NoneRaises(PRECOMMIT_DELETE_LAMBDA, pk)
                /\ NoneRaises(POSTCOMMIT_DELETE_LAMBDA, pk))
               => /\ Len(calls) = n + m + 2
                  /\ \A i \in 1..n : /\ calls[i].op = "hook"
                                     /\ calls[i].type = PRECOMMIT_DELETE_LAMBDA
                                     /\ calls[i].i = i
                  /\ calls[n + 1].op = "delete"
                  /\ \A i \in 1..m : /\ calls[n + 1 + i].op = "hook"
                                     /\ calls[n + 1 + i].type = POSTCOMMIT_DELETE_LAMBDA
                                     /\ calls[n + 1 + i].i = i
                  /\ calls[n + m + 2].op = "count"
                  /\ ~store[ModelAt(p)][pk].exists
                  /\ ~FailedAt(p)

(***************************************************************************)
(* C6: the count commit() returns is the number of rows it deleted from    *)
(* the store plus the number of rows it saved.                             *)
(***************************************************************************)
RowsDeleted ==
    {x \in Models \X Pks : store0[x[1]][x[2]].exists /\ ~store[x[1]][x[2]].exists}
RowsSaved == {i \in 1..Len(log) : log[i].op = "save"}

C6_CountIsDeletedPlusSaved ==
    pc = "returned" => rows_updated = Cardinality(RowsDeleted) + Cardinality(RowsSaved)

(***************************************************************************)
(* C9: when a hook raises something other than ObjectDoesNotExist, or the  *)
(* store refuses a delete, while commit() processes an entry: commit()     *)
(* raises that failure at that call, no later entry is even looked up, the *)
(* rows deleted for earlier entries stay deleted and every other row is as *)
(* it was when commit() began.                                             *)
(***************************************************************************)
HookFailed(p) == \E i \in OpsAt(p, "hook") : log[i].ret = RaisesOther
StoreFailed(p) == OpsAt(p, "delete") # {} /\ Fetched(p).protected

Later(p) == {q \in Positions : q[1] > p[1] \/ (q[1] = p[1] /\ q[2] > p[2])}
Earlier(p) == {q \in Positions : p \in Later(q)}

\* The rows whose deletion commit() carried out before it ended.
DeletedInLog ==
    {<<log[i].model, log[i].pk>> :
        i \in {k \in 1..Len(log) : log[k].op = "delete" /\ ~log[k].row.protected}}

C9_FailurePropagates ==
    Committed =>
        \A p \in Positions :
            (HookFailed(p) \/ StoreFailed(p))
            => /\ pc = "raised"
               /\ err = IF HookFailed(p) THEN "Exception" ELSE "ProtectedError"
               /\ FailedAt(p)
               /\ \A q \in Later(p) : ~Reached(q)
               /\ \A x \in Models \X Pks :
                     store[x[1]][x[2]] = IF x \in DeletedInLog THEN NoRow
                                         ELSE store0[x[1]][x[2]]
               /\ \A q \in Earlier(p) :
                     OpsAt(q, "delete") # {} =>
                        <<ModelAt(q), EntryAt(q).pk>> \in DeletedInLog

\* A hook raised over the second of three entries: the first entry's row is
\* deleted, the third entry's row is still there.
C9_Witness ==
    /\ pc = "raised"
    /\ \E p \in Positions :
          /\ HookFailed(p)
          /\ \E q \in Earlier(p) : /\ OpsAt(q, "count") # {}
                                   /\ ~store[ModelAt(q)][EntryAt(q).pk].exists
          /\ \E q \in Later(p) : /\ CarriesTag(EntryAt(q).cols)
                                 /\ store[ModelAt(q)][EntryAt(q).pk].exists
                                 /\ ~store[ModelAt(q)][EntryAt(q).pk].protected

(***************************************************************************)
(* C10: whatever a hook for row id r returns becomes the stored payload of *)
(* r, the empty payload included: it is what the next hook for r receives  *)
(* and, after the last hook, what commit_lambdas_data holds; a hook that   *)
(* returns None leaves the stored payload as it was.                       *)
(***************************************************************************)
HookCalls(pk) == SelectSeq(log, LAMBDA e : e.op = "hook" /\ e.pk = pk)

PayloadAfter(e) == IF e.ret \in Payloads THEN e.ret ELSE e.data

C10_ReturnedValueStored ==
    Committed =>
        \A pk \in Pks :
            LET calls == HookCalls(pk)
            IN /\ \A i \in 1..(Len(calls) - 1) :
                     calls[i + 1].data = PayloadAfter(calls[i])
               /\ calls # <<>> =>
                     commit_lambdas_data[pk] = PayloadAfter(calls[Len(calls)])

(***************************************************************************)
(* C11: an entry without delete_tag, for a row that exists and differs     *)
(* from the entry in some column: commit() writes the changed columns onto *)
(* the row object, then runs the pre-update hooks of the row id in         *)
(* registration order, then saves the row, then runs the post-update hooks *)
(* in registration order, and counts the row; no update hook runs before   *)
(* the changed columns are written.                                        *)
(***************************************************************************)
ChangedKeys(row, cols) ==
    {cols[k].key : k \in {i \in 1..Len(cols) :
                            cols[i].key \in Attrs /\ row[cols[i].key] # cols[i].value}}

\* The calls commit() made for the entry at p that belong to an update.
UpdateCalls(p) ==
    LET IsUpdateCall(e) ==
            /\ e.mi = p[1] /\ e.j = p[2]
            /\ \/ e.op \in {"save", "count"}
               \/ e.op = "hook" /\ e.type \in {PRECOMMIT_UPDATE_LAMBDA,
                                               POSTCOMMIT_UPDATE_LAMBDA}
    IN SelectSeq(log, IsUpdateCall)

C11_UpdateRunsHooksInOrder ==
    Committed =>
        \A p \in Positions :
            LET pk == EntryAt(p).pk
                cols == EntryAt(p).cols
                n == Len(commit_lambdas[PRECOMMIT_UPDATE_LAMBDA][pk])
                m == Len(commit_lambdas[POSTCOMMIT_UPDATE_LAMBDA][pk])
                calls == UpdateCalls(p)
            IN (/\ Found(p) /\ ~HasTag(cols)
                /\ KeysOf(cols) \subseteq Attrs
                /\ ChangedKeys(Fetched(p), cols) # {}
                /\ NoneRaises(PRECOMMIT_UPDATE_LAMBDA, pk)
                /\ NoneRaises(POSTCOMMIT_UPDATE_LAMBDA, pk))
               => /\ Len(calls) = n + m + 2
                  /\ \A i \in 1..n : /\ calls[i].op = "hook"
                                     /\ calls[i].type = PRECOMMIT_UPDATE_LAMBDA
                                     /\ calls[i].i = i
                  /\ calls[n + 1].op = "save"
                  /\ \A i \in 1..m : /\ calls[n + 1 + i].op = "hook"
                                     /\ calls[n + 1 + i].type = POSTCOMMIT_UPDATE_LAMBDA
                                     /\ calls[n + 1 + i].i = i
                  /\ calls[n + m + 2].op = "count"
                  /\ {log[i].key : i \in OpsAt(p, "setattr")}
                        = ChangedKeys(Fetched(p), cols)
                  /\ \A i \in OpsAt(p, "setattr"), h \in OpsAt(p, "hook") : i < h
                  /\ ~FailedAt(p)

(***************************************************************************)
(* SpecPayload: delete() of Student rows, delete hooks that return None or *)
(* a payload, registered before or after commit(), and commit().           *)
(***************************************************************************)
AddRunnableAnyTime ==
    \E runnable_type \in {PRECOMMIT_DELETE_LAMBDA, POSTCOMMIT_DELETE_LAMBDA},
       pk \in Pks, runnable \in {ReturnsNone, "P1"} :
        add_commit_runnable(runnable_type, pk, runnable) /\ UNCHANGED <<added, tabular>>

NextPayload == DeleteStudent \/ AddRunnableAnyTime \/ Commit
SpecPayload == Init /\ [][NextPayload]_vars

(***************************************************************************)
(* C12: add_commit_runnable(phase, pk, fn) sets the payload of pk to the   *)
(* empty payload when it is the first registration for pk in any phase; a  *)
(* later registration for pk, in the same or in another phase, leaves the  *)
(* payload of pk as it is.  No registration touches another pk's payload.  *)
(***************************************************************************)
Registered(pk) == \E t \in Phases : commit_lambdas[t][pk] # <<>>

C12_Registers(pk) ==
    \E t \in Phases : commit_lambdas'[t][pk] # commit_lambdas[t][pk]

C12_PayloadSetOnce ==
    [][\A pk \in Pks :
          /\ (C12_Registers(pk) /\ ~Registered(pk))
                => commit_lambdas_data'[pk] = EmptyPayload
          /\ (C12_Registers(pk) /\ Registered(pk))
                => commit_lambdas_data'[pk] = commit_lambdas_data[pk]]_vars

(***************************************************************************)
(* SpecCase: add() of delete_tag in either letter case, delete(), commit().*)
(***************************************************************************)
\* str.upper() on the strings of the model: the only lower-case one is "x".
Upper(v) == IF v = "x" THEN "X" ELSE v

AddTag == \E model \in Models, pk \in Pks, v \in {"X", "x"} :
             add(model, pk, <<Kw(DeleteTag, v)>>) /\ UNCHANGED <<added, tabular>>

NextCase == AddTag \/ Delete \/ Commit
SpecCase == Init /\ [][NextCase]_vars

(***************************************************************************)
(* C13: an entry whose delete_tag value is "X" or "x", for a row that      *)
(* exists: commit() treats it as a deletion: it deletes the row, counts    *)
(* it, and does not raise over it.                                         *)
(***************************************************************************)
MarkedAnyCase(cols) ==
    \E k \in 1..Len(cols) :
        cols[k].key = DeleteTag /\ cols[k].lit /\ Upper(cols[k].value) = "X"

C13_TagInAnyCaseDeletes ==
    Committed =>
        \A p \in Positions :
            (Found(p) /\ MarkedAnyCase(EntryAt(p).cols))
            => /\ Cardinality(OpsAt(p, "delete")) = 1
               /\ Cardinality(OpsAt(p, "count")) = 1
               /\ ~store[ModelAt(p)][EntryAt(p).pk].exists
               /\ ~FailedAt(p)

(***************************************************************************)
(* Table definitions (class Column, class BaseAdapter).  columns is the    *)
(* dict BaseAdapter.columns as the sequence of its items in definition     *)
(* order: records [key, header, extractor, inserter] with distinct keys.   *)
(* A header is a string, modelled as the sequence of its characters.  An   *)
(* extractor or inserter is a caller-supplied callable or None; the        *)
(* inserters modelled are the shapes of example_adapter.py: "add" stages   *)
(* the value under the column's key with AdapterStaging.add, "delete"      *)
(* stages a deletion with AdapterStaging.delete.                           *)
(***************************************************************************)
MaxColumns == 3     \* columns of a table definition

None == "None"
Marker == "*"
ColumnKeys == {"id", "first_name", "gpa", "delete_tag"}
Headers == {<<"I">>, <<"N">>, <<"N", Marker>>, <<"D">>}

\* BaseAdapter.model
TableModel == "Student"

Column(k, header, extractor, inserter) ==
    [key |-> k, header |-> header, extractor |-> extractor, inserter |-> inserter]

\* Column.is_modifiable
is_modifiable(cd) == cd.inserter # None

\* The index of the item of cls.columns with this key, 0 when there is none.
ColumnIndex(cols, column) ==
    IF \E i \in 1..Len(cols) : cols[i].key = column
    THEN CHOOSE i \in 1..Len(cols) : cols[i].key = column
    ELSE 0

Returns(v) == [value |-> v, raised |-> NoError]
Raises(e) == [value |-> <<>>, raised |-> e]

\* BaseAdapter._get_column: cls.columns[column], KeyError for an unknown key.
get_column(cols, column) ==
    IF ColumnIndex(cols, column) = 0 THEN Raises("KeyError")
    ELSE Returns(cols[ColumnIndex(cols, column)])

\* str.endswith('*') and header_name[:-1]
EndsWithMarker(h) == Len(h) > 0 /\ h[Len(h)] = Marker
WithoutLast(h) == SubSeq(h, 1, Len(h) - 1)

\* Mutant of get_header_key: the header is looked up as given.
get_header_key_as_given(cols, header_name) ==
    LET hits == {i \in 1..Len(cols) : cols[i].header = header_name}
    IN IF hits = {} THEN Raises("ValueError")
       ELSE Returns(cols[CHOOSE i \in hits : \A j \in hits : i <= j].key)

\* BaseAdapter._get_header_key: a trailing '*' is cut off, then the key of
\* the first column, in definition order, with that header.
get_header_key(cols, header_name) ==
    LET name == IF EndsWithMarker(header_name) THEN WithoutLast(header_name)
                ELSE header_name
        hits == {i \in 1..Len(cols) : cols[i].header = name}
    IN IF hits = {} THEN Raises("ValueError")
       ELSE Returns(cols[CHOOSE i \in hits : \A j \in hits : i <= j].key)

\* BaseAdapter.all_headers
all_headers(cols) == [i \in 1..Len(cols) |-> cols[i].header]

\* Mutant of all_display_headers: every header is marked.
all_display_headers_marks_all(cols) ==
    [i \in 1..Len(cols) |-> Append(cols[i].header, Marker)]

\* BaseAdapter.all_display_headers: '{0}*'.format(cd.header) for a modifiable column.
all_display_headers(cols) ==
    [i \in 1..Len(cols) |->
        IF is_modifiable(cols[i]) THEN Append(cols[i].header, Marker)
        ELSE cols[i].header]

\* BaseAdapter.all_columns
all_columns(cols) == [i \in 1..Len(cols) |-> cols[i].key]

\* BaseAdapter.column_name
column_name(cols, header_name) == get_header_key(cols, header_name)

(***************************************************************************)
(* SpecTable: the listings and the header lookup of a table definition,    *)
(* over every definition of up to MaxColumns columns with distinct keys.   *)
(***************************************************************************)
ColumnDefs ==
    {Column(k, h, None, ins) :
        k \in ColumnKeys, h \in Headers \ {<<"I">>}, ins \in {None, "add"}}

TableDefs ==
    {cols \in UNION {[1..n -> ColumnDefs] : n \in 1..MaxColumns} :
        \A i, j \in 1..Len(cols) : cols[i].key = cols[j].key => i = j}

\* The headers a caller looks up: plain ones and marked ones.
HeaderArgs == (Headers \ {<<"I">>}) \cup {Append(h, Marker) : h \in Headers \ {<<"I">>}}

InitTable ==
    /\ InitBuffer
    /\ store \in Stores
    /\ store0 = store
    /\ columns \in TableDefs
    /\ data = <<>>

\* The variables a call on the table definition leaves alone.
BufferUnchanged ==
    UNCHANGED <<store, update_mapping, commit_lambdas, commit_lambdas_data, added,
                pc, rows_updated, err, log, store0, nCommits>>

Called(op, arg, r) == [op |-> op, arg |-> arg, value |-> r.value, raised |-> r.raised]

AllHeaders ==
    /\ outcome' = Called("all_headers", <<>>, Returns(all_headers(columns)))
    /\ BufferUnchanged /\ UNCHANGED <<columns, data, staged>>

AllDisplayHeaders ==
    /\ outcome' = Called("all_display_headers", <<>>,
                         Returns(all_display_headers(columns)))
    /\ BufferUnchanged /\ UNCHANGED <<columns, data, staged>>

AllColumns ==
    /\ outcome' = Called("all_columns", <<>>, Returns(all_columns(columns)))
    /\ BufferUnchanged /\ UNCHANGED <<columns, data, staged>>

ColumnName ==
    \E header_name \in HeaderArgs :
        /\ outcome' = Called("column_name", header_name,
                             column_name(columns, header_name))
        /\ BufferUnchanged /\ UNCHANGED <<columns, data, staged>>

NextTable == AllHeaders \/ AllDisplayHeaders \/ AllColumns \/ ColumnName
SpecTable == InitTable /\ [][NextTable]_vars

(***************************************************************************)
(* C18: all_display_headers() returns one element per column, in           *)
(* definition order: element i is column i's header followed by '*' when   *)
(* column i has an inserter, and column i's header itself when it has      *)
(* none; all_headers() and all_columns() have the same length and order.   *)
(***************************************************************************)
C18_DisplayHeadersMarkModifiable ==
    outcome.op = "all_display_headers" =>
        /\ outcome.raised = NoError
        /\ Len(outcome.value) = Len(columns)
        /\ Len(all_headers(columns)) = Len(columns)
        /\ Len(all_columns(columns)) = Len(columns)
        /\ \A i \in 1..Len(columns) :
              /\ outcome.value[i] = IF columns[i].inserter = None
                                    THEN columns[i].header
                                    ELSE columns[i].header \o <<Marker>>
              /\ all_headers(columns)[i] = columns[i].header
              /\ all_columns(columns)[i] = columns[i].key

\* The listing of a definition with a modifiable column between two that
\* are not, one of them with a header that itself ends with '*'.
C18_Witness ==
    /\ outcome.op = "all_display_headers"
    /\ Len(columns) >= 3
    /\ columns[1].inserter = None /\ EndsWithMarker(columns[1].header)
    /\ columns[2].inserter # None
    /\ columns[3].inserter = None

(***************************************************************************)
(* C19: in a table definition whose headers are unique, column_name of a   *)
(* column's plain header and of its display header returns that column's   *)
(* key.                                                                    *)
(***************************************************************************)
UniqueHeaders(cols) ==
    \A i, j \in 1..Len(cols) : cols[i].header = cols[j].header => i = j

C19_HeaderLookupInverts ==
    (outcome.op = "column_name" /\ UniqueHeaders(columns)) =>
        \A i \in 1..Len(columns) :
            outcome.arg \in {columns[i].header, all_display_headers(columns)[i]}
            => outcome.raised = NoError /\ outcome.value = columns[i].key

\* C19 as amended: the same for every column whose header does not itself
\* end with the marker '*'.
C19_HeaderLookupInvertsUnmarked ==
    (outcome.op = "column_name" /\ UniqueHeaders(columns)) =>
        \A i \in 1..Len(columns) :
            (/\ ~EndsWithMarker(columns[i].header)
             /\ outcome.arg \in {columns[i].header, all_display_headers(columns)[i]})
            => outcome.raised = NoError /\ outcome.value = columns[i].key

\* The display header of a modifiable column was resolved to its key in a
\* definition that also has a column whose plain header is that display header.
C19_Witness ==
    /\ outcome.op = "column_name" /\ UniqueHeaders(columns)
    /\ \E i, j \in 1..Len(columns) :
          /\ columns[i].inserter # None
          /\ ~EndsWithMarker(columns[i].header)
          /\ outcome.arg = Append(columns[i].header, Marker)
          /\ columns[j].header = outcome.arg
          /\ outcome.value = columns[i].key

(***************************************************************************)
(* BaseAdapter.insert.  b is the staging buffer as the call sees it:       *)
(* [mapping, staged, raised, at], staged being the history of the staging  *)
(* calls made on it and at the data row the importer is at.                *)
(***************************************************************************)
ReservedKeys == {"delete_tag", "copy_tag"}

\* A staging call, with the data row of the file it was made for (0: none).
StagedCall(op, pk, k, v, at) == [op |-> op, model |-> TableModel, pk |-> pk,
                                 key |-> k, value |-> v, at |-> at]

\* column_def.inserter(table_updater, row, value)
CallInserter(b, column_def, row, value) ==
    IF column_def.inserter = None
    THEN [b EXCEPT !.raised = "TypeError"]      \* None is not callable
    ELSE IF column_def.inserter = "delete"
    THEN [b EXCEPT !.mapping = DeleteTo(@, TableModel, row),
                   !.staged = Append(@, StagedCall("delete", row, DeleteTag, "X", b.at))]
    ELSE [b EXCEPT !.mapping = AddTo(@, TableModel, row,
                                     <<Kw(column_def.key, value)>>),
                   !.staged = Append(@, StagedCall("add", row, column_def.key, value, b.at))]

\* Lines 245-249.
InsertTo(b, cols, row, column, value) ==
    LET got == get_column(cols, column)
    IN IF got.raised # NoError THEN [b EXCEPT !.raised = got.raised]
       ELSE IF is_modifiable(got.value) THEN CallInserter(b, got.value, row, value)
       ELSE IF column = "delete_tag" \/ column = "copy_tag"
       THEN CallInserter(b, got.value, row, value)
       ELSE b

Buffer == [mapping |-> update_mapping, staged |-> staged, raised |-> NoError,
           at |-> 0]

insert(row, column, value) ==
    LET b == InsertTo(Buffer, columns, row, column, value)
    IN /\ Len(staged) < MaxEntries
       /\ update_mapping' = b.mapping
       /\ staged' = b.staged
       /\ outcome' = Called("insert", <<row, column, value>>,
                            [value |-> <<>>, raised |-> b.raised])
       /\ UNCHANGED <<store, commit_lambdas, commit_lambdas_data, added,
                      pc, rows_updated, err, log, store0, nCommits, columns, data>>

(***************************************************************************)
(* SpecInsert: insert() of defined and undefined keys through two table    *)
(* definitions, and commit().                                              *)
(***************************************************************************)
\* id and gpa read-only, first_name modifiable, delete_tag with its inserter.
StudentColumns ==
    <<Column("id", <<"I">>, None, None),
      Column("first_name", <<"N">>, None, "add"),
      Column("gpa", <<"G">>, None, None),
      Column("delete_tag", <<"D">>, None, "delete")>>

\* The same with a delete_tag column that was given no inserter.
StudentColumnsNoInserter ==
    [StudentColumns EXCEPT ![4] = Column("delete_tag", <<"D">>, None, None)]

InsertKeys == ColumnKeys \cup {"copy_tag", "label"}

InitInsert ==
    /\ InitBuffer
    /\ store \in Stores
    /\ store0 = store
    /\ columns \in {StudentColumns, StudentColumnsNoInserter}
    /\ data = <<>>

Insert == \E row \in Pks, column \in InsertKeys, value \in {"a", "b", "X"} :
             Staging /\ insert(row, column, value)

NextInsert == Insert \/ Commit
SpecInsert == InitInsert /\ [][NextInsert]_vars

(***************************************************************************)
(* C14: insert() with a key that is not a modifiable column (it has no     *)
(* inserter, or is not defined in the table definition at all) and is not  *)
(* delete_tag or copy_tag leaves the staging buffer as it was and raises   *)
(* nothing.                                                                *)
(***************************************************************************)
Modifiable(cols, column) ==
    \E i \in 1..Len(cols) : cols[i].key = column /\ cols[i].inserter # None

C14_InsertStep ==
    /\ outcome'.op = "insert"
    /\ <<outcome, update_mapping>>' # <<outcome, update_mapping>>

C14_OtherKeyIsNoOp ==
    [][(/\ C14_InsertStep
        /\ ~Modifiable(columns, outcome'.arg[2])
        /\ outcome'.arg[2] \notin ReservedKeys)
       => /\ outcome'.raised = NoError
          /\ update_mapping' = update_mapping
          /\ commit_lambdas' = commit_lambdas
          /\ commit_lambdas_data' = commit_lambdas_data]_vars

(***************************************************************************)
(* Importers (src/data_import.py).  A file is a sequence of rows, a row a  *)
(* sequence of cells: the leading info rows, the header row, the data      *)
(* rows.  A data cell is a string of at most one character.  The importer  *)
(* state im is [b, key_lookup, db_id, assigned]: the staging buffer, the   *)
(* dict key_lookup as the sequence of its items [key, idx] in insertion    *)
(* order, and the local variable db_id of CSVImporter.import_data, which   *)
(* lives across the rows of the file and is unbound until assigned.        *)
(***************************************************************************)
\* GenericInfo.info_rows: the banner rows every exported file starts with.
info_rows == <<<<"info">>>>

\* int(cell) on the cells of the model.
int(v) == IF v = "1" THEN Returns(1)
          ELSE IF v = "2" THEN Returns(2) ELSE Raises("ValueError")

\* 'X' in cell.upper(), for a cell of at most one character.
HasX(v) == Upper(v) = "X"

InLookup(kl, k) == \E i \in 1..Len(kl) : kl[i].key = k

\* key_lookup[key] = idx: a key already present keeps its place.
LookupSet(kl, k, idx) ==
    IF InLookup(kl, k)
    THEN [i \in 1..Len(kl) |-> IF kl[i].key = k THEN [kl[i] EXCEPT !.idx = idx]
                               ELSE kl[i]]
    ELSE Append(kl, [key |-> k, idx |-> idx])

\* row[key_lookup[key]]
CellOf(row, kl, k) ==
    IF ~InLookup(kl, k) THEN Raises("KeyError")
    ELSE LET idx == kl[CHOOSE i \in 1..Len(kl) : kl[i].key = k].idx
         IN IF idx > Len(row) THEN Raises("IndexError") ELSE Returns(row[idx])

\* Lines 69-73 and 114-118: the header row from cell idx on; a header that
\* column_name does not resolve is passed over.
RECURSIVE HeaderKeys(_, _, _, _)
HeaderKeys(kl, cols, row, idx) ==
    IF idx > Len(row) THEN kl
    ELSE LET k == column_name(cols, row[idx])
         IN HeaderKeys(IF k.raised # NoError THEN kl ELSE LookupSet(kl, k.value, idx),
                       cols, row, idx + 1)

Failed(im, e) == [im EXCEPT !.b.raised = e]

\* F applied to the value of x, x being evaluated once.
Bind(x, F(_)) == CHOOSE r \in {F(v) : v \in {x}} : TRUE

\* CSVImporter, lines 85-90: one item of key_lookup.
CSVKey(im, cols, row, k) ==
    LET key == im.key_lookup[k].key
        idx == im.key_lookup[k].idx
        cell == IF idx > Len(row) THEN Raises("IndexError") ELSE Returns(row[idx])
    IN IF key = "id"
       THEN IF cell.raised # NoError THEN Failed(im, cell.raised)
            ELSE IF int(cell.value).raised # NoError
            THEN Failed(im, int(cell.value).raised)
            ELSE [im EXCEPT !.db_id = int(cell.value).value, !.assigned = TRUE]
       ELSE IF key = "delete_tag" THEN im
       ELSE IF ~im.assigned THEN Failed(im, "UnboundLocalError")
       ELSE IF cell.raised # NoError THEN Failed(im, cell.raised)
       ELSE [im EXCEPT !.b = InsertTo(@, cols, im.db_id, key, cell.value)]

\* CSVImporter, lines 84-90: the items of key_lookup from the k-th on.
RECURSIVE CSVKeys(_, _, _, _)
CSVKeys(im, cols, row, k) ==
    Bind(im, LAMBDA v :
        IF k > Len(v.key_lookup) \/ v.b.raised # NoError THEN v
        ELSE CSVKeys(CSVKey(v, cols, row, k), cols, row, k + 1))

\* CSVImporter, lines 76-90: one data row.
CSVRow(im, cols, row) ==
    LET tag == CellOf(row, im.key_lookup, "delete_tag")
        id == CellOf(row, im.key_lookup, "id")
    IN IF ~InLookup(im.key_lookup, "delete_tag") THEN CSVKeys(im, cols, row, 1)
       ELSE IF tag.raised # NoError THEN Failed(im, tag.raised)
       ELSE IF ~HasX(tag.value) THEN CSVKeys(im, cols, row, 1)
       ELSE IF id.raised # NoError THEN Failed(im, id.raised)
       ELSE IF int(id.value).raised # NoError THEN Failed(im, int(id.value).raised)
       ELSE [im EXCEPT !.b = InsertTo(@, cols, int(id.value).value, "delete_tag", "X")]

\* ExcelImporter, line 123.
excepted_columns == <<"delete_tag", "copy_tag">>

\* Lines 125-128: one marker column.
ExcelMark(im, cols, row, e) ==
    LET excepted_column == excepted_columns[e]
        tag == CellOf(row, im.key_lookup, excepted_column)
        id == CellOf(row, im.key_lookup, "id")
    IN IF ~InLookup(im.key_lookup, excepted_column) THEN im
       ELSE IF tag.raised # NoError THEN Failed(im, tag.raised)
       ELSE IF ~HasX(tag.value) THEN im
       ELSE IF id.raised # NoError THEN Failed(im, id.raised)
       ELSE IF int(id.value).raised # NoError THEN Failed(im, int(id.value).raised)
       ELSE [im EXCEPT !.b = InsertTo(@, cols, int(id.value).value,
                                      excepted_column, None)]

\* ExcelImporter, lines 124-128: the marker columns from the e-th on.  The
\* continue of line 128 continues this loop, nothing else.
RECURSIVE ExcelMarks(_, _, _, _)
ExcelMarks(im, cols, row, e) ==
    Bind(im, LAMBDA v :
        IF e > Len(excepted_columns) \/ v.b.raised # NoError THEN v
        ELSE ExcelMarks(ExcelMark(v, cols, row, e), cols, row, e + 1))

\* ExcelImporter, lines 133-138: one item of key_lookup.
ExcelKey(im, cols, row, k) ==
    LET key == im.key_lookup[k].key
        idx == im.key_lookup[k].idx
        cell == IF idx > Len(row) THEN Raises("IndexError") ELSE Returns(row[idx])
    IN IF cell.raised # NoError /\ key \notin {"delete_tag", "copy_tag"}
       THEN Failed(im, cell.raised)
       ELSE IF key = "id"
       THEN IF int(cell.value).raised # NoError
            THEN Failed(im, int(cell.value).raised)
            ELSE [im EXCEPT !.db_id = int(cell.value).value]
       ELSE IF key \in {"delete_tag", "copy_tag"} THEN im
       ELSE [im EXCEPT !.b = InsertTo(@, cols, im.db_id, key, cell.value)]

\* ExcelImporter, lines 132-138: the items of key_lookup from the k-th on.
RECURSIVE ExcelKeys(_, _, _, _)
ExcelKeys(im, cols, row, k) ==
    Bind(im, LAMBDA v :
        IF k > Len(v.key_lookup) \/ v.b.raised # NoError THEN v
        ELSE ExcelKeys(ExcelKey(v, cols, row, k), cols, row, k + 1))

\* ExcelImporter, lines 121-138: one data row; dbid = -1 at line 131.
ExcelRow(im, cols, row) ==
    Bind(ExcelMarks(im, cols, row, 1), LAMBDA marked :
        IF marked.b.raised # NoError THEN marked
        ELSE ExcelKeys([marked EXCEPT !.db_id = -1], cols, row, 1))

CSV == "CSVImporter"
Excel == "ExcelImporter"

\* One row of the file: an info row, the header row or a data row.
ImportRow(kind, im, cols, file, r) ==
    IF r <= Len(info_rows) THEN im
    ELSE IF r = Len(info_rows) + 1
    THEN [im EXCEPT !.key_lookup = HeaderKeys(@, cols, file[r], 1)]
    ELSE IF kind = CSV THEN CSVRow([im EXCEPT !.b.at = r], cols, file[r])
    ELSE ExcelRow([im EXCEPT !.b.at = r], cols, file[r])

\* The loop over the rows of the file, from row r on.
RECURSIVE ImportFrom(_, _, _, _, _)
ImportFrom(kind, im, cols, file, r) ==
    Bind(im, LAMBDA v :
        IF r > Len(file) \/ v.b.raised # NoError THEN v
        ELSE ImportFrom(kind, ImportRow(kind, v, cols, file, r), cols, file, r + 1))

\* import_data: the rows of the file are staged, then commit() is called.
\* An exception while the file is read leaves commit() uncalled.
import_data(kind) ==
    \E im \in {ImportFrom(kind, [b |-> Buffer, key_lookup |-> <<>>, db_id |-> 0,
                                  assigned |-> FALSE], columns, data, 1)} :
    \E c \in {CommitOf(im.b.mapping)} :
    LET read == im.b.raised = NoError
    IN /\ Staging
       /\ nCommits < MaxCommits
       /\ update_mapping' = im.b.mapping
       /\ staged' = im.b.staged
       /\ store' = IF read THEN c.store ELSE store
       /\ commit_lambdas_data' = IF read THEN c.data ELSE commit_lambdas_data
       /\ log' = IF read THEN c.log ELSE <<>>
       /\ rows_updated' = IF read THEN c.rows ELSE 0
       /\ err' = IF read THEN c.err ELSE im.b.raised
       /\ pc' = IF read /\ c.err = NoError THEN "returned" ELSE "raised"
       /\ outcome' = [op |-> kind, arg |-> <<IF read THEN "read" ELSE "not read">>,
                      value |-> IF read THEN c.rows ELSE 0,
                      raised |-> IF read THEN c.err ELSE im.b.raised]
       /\ store0' = store
       /\ nCommits' = IF read THEN nCommits + 1 ELSE nCommits
       /\ UNCHANGED <<commit_lambdas, added, columns, data>>

(***************************************************************************)
(* SpecImport: a file of up to MaxRows data rows under the display headers *)
(* of the table definition, read by the CSV or by the Excel importer.  The *)
(* definitions differ in where the id column stands.                       *)
(***************************************************************************)
MaxRows == 2        \* data rows of a file

StudentColumnsIdLast ==
    <<Column("first_name", <<"N">>, None, "add"),
      Column("delete_tag", <<"D">>, None, "delete"),
      Column("id", <<"I">>, None, None)>>

StudentColumnsIdFirst ==
    <<Column("id", <<"I">>, None, None),
      Column("delete_tag", <<"D">>, None, "delete"),
      Column("first_name", <<"N">>, None, "add")>>

ImportDefs == {StudentColumns, StudentColumnsIdFirst, StudentColumnsIdLast}

\* What a cell under a column can hold.
CellsOf(k) == IF k = "id" THEN {"1", "2"}
              ELSE IF k = "delete_tag" THEN {"", "x", "X"}
              ELSE IF k = "gpa" THEN {"a"}
              ELSE Vals

DataRows(cols) ==
    {row \in [1..Len(cols) -> {"", "x", "X", "1", "2"} \cup Vals] :
        \A i \in 1..Len(cols) : row[i] \in CellsOf(cols[i].key)}

Files(cols) ==
    {info_rows \o <<all_display_headers(cols)>> \o rows :
        rows \in UNION {[1..n -> DataRows(cols)] : n \in 0..MaxRows}}

InitImport ==
    /\ InitBuffer
    /\ store \in Stores
    /\ store0 = store
    /\ columns \in ImportDefs
    /\ data \in Files(columns)

ImportCSV == import_data(CSV)
ImportExcel == import_data(Excel)

NextImport == ImportCSV \/ ImportExcel
SpecImport == InitImport /\ [][NextImport]_vars

\* What the last import did, read off the file and the history staged.
Imported == outcome.op \in {CSV, Excel}
DataRowsOf(file) == (Len(info_rows) + 2)..Len(file)
CellAt(r, k) == data[r][ColumnIndex(columns, k)]
Marked(r) == ColumnIndex(columns, "delete_tag") > 0 /\ Upper(CellAt(r, "delete_tag")) = "X"
StagedFor(r) == SelectSeq(staged, LAMBDA s : s.at = r)

(***************************************************************************)
(* C15: after an import that read the whole file, by either importer, for  *)
(* every data row whose delete_tag cell holds "X" or "x": exactly one      *)
(* staging call was made for that row, a deletion of the row id in the     *)
(* row's id cell; no column value of that row was staged.                  *)
(***************************************************************************)
C15_MarkedRowStagesOnlyDeletion ==
    (Imported /\ outcome.arg = <<"read">>) =>
        \A r \in DataRowsOf(data) :
            Marked(r) =>
                /\ Len(StagedFor(r)) = 1
                /\ StagedFor(r)[1].op = "delete"
                /\ StagedFor(r)[1].pk = int(CellAt(r, "id")).value

(***************************************************************************)
(* C16: after an import by either importer, every column value staged for  *)
(* a data row that is not marked for deletion is staged under the row id   *)
(* in that row's own id cell, wherever the id column stands and whatever   *)
(* rows came before.                                                       *)
(***************************************************************************)
C16_StagedUnderOwnId ==
    Imported =>
        \A r \in DataRowsOf(data) :
            ~Marked(r) =>
                \A i \in 1..Len(StagedFor(r)) :
                    StagedFor(r)[i].pk = int(CellAt(r, "id")).value

(***************************************************************************)
(* Exporter (src/data_export.py).  An exported record is [pk, row]: the    *)
(* row object and its primary key, which is its attribute id.              *)
(***************************************************************************)
\* A value with its Python type: "int", "str" or "NoneType".
Typed(t, v) == [type |-> t, value |-> v, raised |-> NoError]

\* getattr(row, column)
getattr(rec, column) ==
    IF column = "id" THEN Typed("int", rec.pk)
    ELSE IF column \in Attrs THEN Typed("str", rec.row[column])
    ELSE [Typed("NoneType", None) EXCEPT !.raised = "AttributeError"]

\* BaseAdapter.extract.  No table definition of the model has an extractor.
extract(cols, rec, column) ==
    LET got == get_column(cols, column)
    IN IF got.raised # NoError
       THEN [Typed("NoneType", None) EXCEPT !.raised = got.raised]
       ELSE IF got.value.extractor # None
       THEN [Typed("NoneType", None) EXCEPT !.raised = "TypeError"]
       ELSE getattr(rec, column)

\* Exporter._get_row_value
get_row_value(cols, rec, k) ==
    IF k \in {"delete_tag", "copy_tag"} THEN Typed("NoneType", None)
    ELSE LET got == extract(cols, rec, k)
         IN IF got.raised # NoError THEN Typed("str", "ERROR") ELSE got

\* str() of the numbers of the model.
str(n) == IF n = 1 THEN "1" ELSE IF n = 2 THEN "2" ELSE "?"

\* What csv.writer writes for a value: nothing for None, str() of a number,
\* a string as it is.
Written(x) == IF x.type = "NoneType" THEN ""
              ELSE IF x.type = "int" THEN str(x.value) ELSE x.value

\* CSVExporter.export
CSVExport(cols, recs) ==
    info_rows \o <<all_display_headers(cols)>> \o
    [r \in 1..Len(recs) |->
        [i \in 1..Len(all_columns(cols)) |->
            Written(get_row_value(cols, recs[r], all_columns(cols)[i]))]]

(***************************************************************************)
(* SpecRoundTrip: some rows of the store are exported through the table    *)
(* definition and the file is handed to CSVImporter as it is.              *)
(***************************************************************************)
StoresExport ==
    {[m \in Models |-> [pk \in Pks |->
         IF m = TableModel THEN Row(f[pk], "a", FALSE) ELSE PlainRow]] :
       f \in [Pks -> Vals]}

\* The querysets exported: the rows of the table in some order, or some of them.
Querysets == {<<>>, <<1>>, <<2>>, <<1, 2>>, <<2, 1>>}

InitRoundTrip ==
    /\ InitBuffer
    /\ store \in StoresExport
    /\ store0 = store
    /\ columns \in ImportDefs
    /\ data = <<>>

Export ==
    \E pks \in Querysets :
        /\ Staging /\ data = <<>>
        /\ data' = CSVExport(columns, [r \in 1..Len(pks) |->
                                [pk |-> pks[r], row |-> store[TableModel][pks[r]]]])
        /\ outcome' = Called("export", pks, Returns(<<>>))
        /\ BufferUnchanged /\ UNCHANGED <<columns, staged>>

ImportExported == data # <<>> /\ import_data(CSV)

NextRoundTrip == Export \/ ImportExported
SpecRoundTrip == InitRoundTrip /\ [][NextRoundTrip]_vars

(***************************************************************************)
(* C17: a file exported from the store through the table definition and    *)
(* imported again as it is: the import's commit() returns 0 and the store  *)
(* is as it was.                                                           *)
(***************************************************************************)
C17_RoundTripChangesNothing ==
    outcome.op = CSV =>
        /\ outcome.raised = NoError
        /\ outcome.arg = <<"read">>
        /\ outcome.value = 0
        /\ store = store0

(***************************************************************************)
(* SpecOrder: add() and delete() calls, each recorded in the history       *)
(* staged, and commit().                                                   *)
(***************************************************************************)
MaxStaged == 4      \* staging calls recorded

KwOrder == {<<Kw("first_name", "a")>>, <<Kw(DeleteTag, "X")>>}

AddOrdered ==
    \E model \in Models, pk \in Pks, kwargs \in KwOrder :
        /\ Len(staged) < MaxStaged
        /\ add(model, pk, kwargs)
        /\ staged' = Append(staged, [op |-> "add", model |-> model, pk |-> pk,
                                     key |-> kwargs[1].key, value |-> kwargs[1].value,
                                     at |-> 0])
        /\ UNCHANGED <<added, columns, data, outcome>>

DeleteOrdered ==
    \E model \in Models, pk \in Pks :
        /\ Len(staged) < MaxStaged
        /\ delete(model, pk)
        /\ staged' = Append(staged, [op |-> "delete", model |-> model, pk |-> pk,
                                     key |-> DeleteTag, value |-> "X", at |-> 0])
        /\ UNCHANGED <<added, columns, data, outcome>>

NextOrder == AddOrdered \/ DeleteOrdered \/ Commit
SpecOrder == Init /\ [][NextOrder]_vars

(***************************************************************************)
(* C20: within each model type commit() looks up and applies the pending   *)
(* entries in the order in which the staging calls first appended them: a  *)
(* delete() appends an entry, an add() appends one unless the row already  *)
(* has an entry, and then it merges into that entry where it stands.  A    *)
(* commit() that raised has gone through a prefix of that order.           *)
(***************************************************************************)
\* The row ids of model in the order the staging calls appended entries.
RECURSIVE AppendOrder(_, _, _)
AppendOrder(model, n, sofar) ==
    IF n > Len(staged) THEN sofar
    ELSE LET s == staged[n]
             here == s.model = model
             merges == s.op = "add" /\ \E i \in 1..Len(sofar) : sofar[i] = s.pk
         IN AppendOrder(model, n + 1,
                        IF here /\ ~merges THEN Append(sofar, s.pk) ELSE sofar)

\* The row ids commit() looked up, and those it deleted, for model, in order.
LookedUp(model) ==
    LET gets == SelectSeq(log, LAMBDA e : e.op = "get" /\ e.model = model)
    IN [i \in 1..Len(gets) |-> gets[i].pk]
Deleted(model) ==
    LET dels == SelectSeq(log, LAMBDA e : e.op = "delete" /\ e.model = model)
    IN [i \in 1..Len(dels) |-> dels[i].pk]

IsPrefix(s, t) == Len(s) <= Len(t) /\ \A i \in 1..Len(s) : s[i] = t[i]

RECURSIVE IsSubsequence(_, _)
IsSubsequence(s, t) ==
    IF s = <<>> THEN TRUE
    ELSE IF t = <<>> THEN FALSE
    ELSE IF Head(s) = Head(t) THEN IsSubsequence(Tail(s), Tail(t))
    ELSE IsSubsequence(s, Tail(t))

C20_AppliedInAppendOrder ==
    Committed =>
        \A model \in Models :
            LET order == AppendOrder(model, 1, <<>>)
            IN /\ IsPrefix(LookedUp(model), order)
               /\ pc = "returned" => LookedUp(model) = order
               /\ IsSubsequence(Deleted(model), LookedUp(model))

\* commit() deleted row 1 before row 2 of one model, and the staging call
\* that made the entry of row 1 a deletion was an add() that came after the
\* entry of row 2 had been appended.
C20_Witness ==
    /\ pc = "returned"
    /\ \E model \in Models :
          /\ Deleted(model) = <<1, 2>>
          /\ \E i, j, k \in 1..Len(staged) :
                /\ i < j /\ j < k
                /\ staged[i].model = model /\ staged[i].pk = 1
                /\ staged[i].op = "add" /\ staged[i].key = "first_name"
                /\ staged[j].model = model /\ staged[j].pk = 2
                /\ staged[k].model = model /\ staged[k].pk = 1
                /\ staged[k].op = "add" /\ staged[k].key = DeleteTag

(***************************************************************************)
(* SpecRecommit: delete() of Student rows, add() of first_name to row 2 of *)
(* either model type (Course row 2 does not exist), delete hooks that      *)
(* return None, and commit() called up to MaxRecommits times on the same   *)
(* buffer, with no other call in between.                                  *)
(***************************************************************************)
MaxRecommits == 2   \* commit() calls on one buffer in SpecRecommit

AddRecommit ==
    \E model \in Models, v \in Vals :
        add(model, 2, <<Kw("first_name", v)>>) /\ UNCHANGED <<added, tabular>>

AddReturningRunnable ==
    \E runnable_type \in {PRECOMMIT_DELETE_LAMBDA, POSTCOMMIT_DELETE_LAMBDA},
       pk \in Pks :
        Staging /\ add_commit_runnable(runnable_type, pk, ReturnsNone)
                /\ UNCHANGED <<added, tabular>>

Recommit ==
    /\ nCommits < MaxRecommits
    /\ CommitCall
    /\ UNCHANGED <<added, tabular>>

NextRecommit == AddRecommit \/ DeleteStudent \/ AddReturningRunnable \/ Recommit
SpecRecommit == Init /\ [][NextRecommit]_vars

(***************************************************************************)
(* C21: a commit() call leaves the pending entries (update_mapping) and    *)
(* the hook registrations (commit_lambdas) as they were; and on a buffer   *)
(* without hooks, a commit() that follows a commit() that returned, with   *)
(* nothing in between, returns 0 and leaves the store as it was.           *)
(***************************************************************************)
CommitStep == nCommits' = nCommits + 1

C21_Recommit ==
    /\ CommitStep => /\ update_mapping' = update_mapping
                     /\ commit_lambdas' = commit_lambdas
    /\ (CommitStep /\ pc = "returned" /\ NumHooks = 0)
       => /\ pc' = "returned"
          /\ rows_updated' = 0
          /\ store' = store

C21_CommitKeepsBuffer == [][C21_Recommit]_vars

\* A second commit() has returned 0 and changed nothing over a buffer without
\* hooks whose first commit() deleted Student row 1, the entry of that
\* deletion still pending.
C21_Witness ==
    /\ nCommits = 2 /\ pc = "returned" /\ rows_updated = 0
    /\ NumHooks = 0
    /\ ~store["Student"][1].exists
    /\ store0 = store
    /\ \E p \in Positions :
          ModelAt(p) = "Student" /\ EntryAt(p).pk = 1 /\ CarriesTag(EntryAt(p).cols)

(***************************************************************************)
(* C22: delete() staged more than once for one row that exists, nothing    *)
(* else staged for it, and commit() returns: the row is deleted once, each *)
(* pre-delete and post-delete hook registered for its id runs once for it, *)
(* it is counted once, and every entry after the first finds the row       *)
(* missing and is skipped.                                                 *)
(***************************************************************************)
\* The positions of the entries pending for row pk of model.
EntriesFor(model, pk) ==
    {p \in Positions : ModelAt(p) = model /\ EntryAt(p).pk = pk}

\* The entry at p was staged by delete(): it carries delete_tag = 'X' alone.
StagedByDelete(p) == EntryAt(p).cols = <<Kw(DeleteTag, "X")>>

\* The calls of kind op that commit() made for row pk of model.
CallsFor(model, pk, op) ==
    {i \in 1..Len(log) : log[i].op = op /\ log[i].model = model /\ log[i].pk = pk}

\* The first of a set of positions of one model, in the order of commit().
FirstOf(ps) == CHOOSE p \in ps : \A q \in ps : p[2] <= q[2]

C22_Duplicates(model, pk) ==
    /\ Cardinality(EntriesFor(model, pk)) > 1
    /\ \A p \in EntriesFor(model, pk) : StagedByDelete(p)
    /\ store0[model][pk].exists

C22_DuplicateDeleteOnce ==
    pc = "returned" =>
        \A model \in Models, pk \in Pks :
            C22_Duplicates(model, pk)
            => /\ Cardinality(CallsFor(model, pk, "delete")) = 1
               /\ ~store[model][pk].exists
               /\ \A type \in {PRECOMMIT_DELETE_LAMBDA, POSTCOMMIT_DELETE_LAMBDA} :
                     \A n \in 1..Len(commit_lambdas[type][pk]) :
                        Cardinality({i \in CallsFor(model, pk, "hook") :
                                        log[i].type = type /\ log[i].i = n}) = 1
               /\ Cardinality(CallsFor(model, pk, "count")) = 1
               /\ \A p \in EntriesFor(model, pk) \ {FirstOf(EntriesFor(model, pk))} :
                     Missing(p) /\ Cardinality(EventsAt(p)) = 1

====
